---------------------------- MODULE Spec2Model ----------------------------
(***************************************************************************)
(* RaiiObjectPool<T>: a thread-safe object pool that hands out             *)
(* std::unique_ptr<T, ReturnToPoolDeleter> handles.  The model follows     *)
(* src/RaiiObjectPool.hpp: the pool's fields, acquire(), add(), the        *)
(* destructor, and ReturnToPoolDeleter::operator(), run by several threads *)
(* that each hold a copy of the pool's shared_ptr.                         *)
(***************************************************************************)
EXTENDS Naturals, Sequences, FiniteSets

\* Bounds of the model.
MaxLimit == 2
MaxAllocated == 2
MaxAddFailures == 1

\* enum : size_t { Unlimited = 0 }
Unlimited == 0

Threads == {"t1", "t2"}

\* The objects the factory can construct, named by their order of construction.
ObjIds == 1..(IF MaxLimit > MaxAllocated THEN MaxLimit ELSE MaxAllocated)

\* The acquire calls counted by the history variable calls (it saturates).
CallsCap == MaxLimit + 1

VARIABLES
    _limit,          \* size_t _limit
    _allocated,      \* size_t _allocated
    _mutex,          \* std::mutex _mutex: "free" or the thread that holds it
    _poolContainer,  \* std::stack<UniquePtrToObject>: bottom first, top last
    poolState,       \* "alive", "destructing" (in ~RaiiObjectPool), "destroyed"
    extRef,          \* extRef[t]: thread t holds a copy of the pool's SharedPtr
    frames,          \* frames[t]: operator() frames of t holding a locked `pool`
    pc,              \* pc[t]: where thread t is
    ret,             \* ret[t]: what t's acquire call returned
    held,            \* held[t]: objects of the full handles t holds
    disp,            \* disp[t]: ptrToReleasedObject of t's running operator()
    cont,            \* cont[t]: where t goes on after ~RaiiObjectPool
    object,          \* object[o]: "unborn", "live", "deleted", "deletedTwice"
    factoryCalls,    \* history: invocations of _factory
    calls,           \* history: completed acquire calls (saturates at CallsCap)
    anyReleased,     \* history: some full handle has been disposed while the
                     \* pool was alive
    atEntry,         \* history: atEntry[t]: the counters when t's acquire locked
    atTeardown,      \* history: the objects pooled and checked out when the
                     \* destructor started
    dtorDeleted,     \* history: the objects the destructor deleted, in order
    releaseOrder,    \* history: the recycled objects, oldest release first
    readInFactory    \* history: limit(), allocated() or pooled() has returned
                     \* while some thread was inside _factory()

vars == <<_limit, _allocated, _mutex, _poolContainer, poolState, extRef, frames,
          pc, ret, held, disp, cont, object, factoryCalls, calls, anyReleased,
          atEntry, atTeardown, dtorDeleted, releaseOrder, readInFactory>>

histVars == <<factoryCalls, calls, anyReleased, atEntry, atTeardown, dtorDeleted,
              releaseOrder, readInFactory>>

poolVars == <<_limit, _allocated, _mutex, _poolContainer>>

----------------------------------------------------------------------------
\* Helpers.

RECURSIVE SumFrames(_, _)
SumFrames(f, S) ==
    IF S = {} THEN 0
    ELSE LET t == CHOOSE x \in S : TRUE IN f[t] + SumFrames(f, S \ {t})

\* Faulty variant of UseCount: operator() holds no reference of its own.
UseCountCallersOnly(refs, fr) == Cardinality({t \in Threads : refs[t]})

\* Faulty variant of UseCount: every handle owns the pool as well.
UseCountWithHandles(refs, fr) ==
    Cardinality({t \in Threads : refs[t]}) + SumFrames(fr, Threads)
        + Len(_poolContainer) + Cardinality(UNION {held[t] : t \in Threads})

\* shared_ptr use_count of the pool: the threads' copies plus the `pool`
\* locals of running operator() frames.
UseCount(refs, fr) == Cardinality({t \in Threads : refs[t]}) + SumFrames(fr, Threads)

\* Objects the factory has constructed so far.
Constructed == {o \in ObjIds : object[o] # "unborn"}

\* The factory's `new T`: the next object.
NewObject == Cardinality(Constructed) + 1

\* `delete ptr` on an object: a second delete is undefined behaviour, flagged.
DeleteObj(st) == IF st = "live" THEN "deleted" ELSE "deletedTwice"

\* Faulty variant of Top: the oldest entry.
TopOldest(s) == s[1]

\* _poolContainer.top(), .pop(), .push() of std::stack over std::deque.
Top(s) == s[Len(s)]
Pop(s) == SubSeq(s, 1, Len(s) - 1)
Push(s, e) == Append(s, e)

\* UniquePtrToObject{ptr, ReturnToPoolDeleter(pool)}: the object and whether
\* the deleter's _ptrToOwnerPool still refers to the pool.
Handle(o) == [obj |-> o, owner |-> TRUE]

\* Faulty variant of AddPushed: the handle is dropped, not pushed.
AddDropsHandle(s, o) == s

\* add(ptr): _poolContainer.push(std::move(ptr)) with the handle operator()
\* built around the released object.
AddPushed(s, o) == Push(s, Handle(o))

\* ReturnToPoolDeleter::detachFromPool
DetachFromPool(h) == [h EXCEPT !.owner = FALSE]

\* acquire's test `_limit == Unlimited || _allocated < _limit`
LimitNotReached(l, a) == l = Unlimited \/ a < l

\* Faulty variant of Allocate: the construction is not counted.
AllocateNotCounted(a) == a

\* ++_allocated
Allocate(a) == a + 1

\* Faulty variants of AcquireBranch: the limit test off by one either way,
\* and the limit tested before the stack.
LimitNotReachedOffByOne(s, l, a) ==
    IF s # <<>> THEN "recycled"
    ELSE IF l = Unlimited \/ a <= l THEN "new"
    ELSE "exhausted"

LimitReachedEarly(s, l, a) ==
    IF s # <<>> THEN "recycled"
    ELSE IF l = Unlimited \/ a + 1 < l THEN "new"
    ELSE "exhausted"

LimitTestedFirst(s, l, a) ==
    IF ~LimitNotReached(l, a) THEN "exhausted"
    ELSE IF s # <<>> THEN "recycled"
    ELSE "new"

\* Faulty variant of AcquireBranch: Unlimited is taken as a limit of zero.
UnlimitedIsALimit(s, l, a) ==
    IF s # <<>> THEN "recycled"
    ELSE IF a < l THEN "new"
    ELSE "exhausted"

\* Faulty variant of AcquireBranch: an exhausted pool makes the caller wait
\* for a release.
AcquireWaitsWhenExhausted(s, l, a) ==
    IF s # <<>> THEN "recycled"
    ELSE IF LimitNotReached(l, a) THEN "new"
    ELSE "wait"

\* acquire's if / else if / else under the lock: which branch runs.
AcquireBranch(s, l, a) ==
    IF s # <<>> THEN "recycled"
    ELSE IF LimitNotReached(l, a) THEN "new"
    ELSE "exhausted"

\* limit(), allocated(), pooled(): reads of the fields under the lock.
limit == _limit
allocated == _allocated
pooled == Len(_poolContainer)

\* Faulty variant of WeakLock: an expired pool still resolves.
WeakLockIgnoresExpiry(owner, useCount) == owner

\* _ptrToOwnerPool.lock(): non-null iff the deleter is attached and the
\* pool's use_count is not zero.
WeakLock(owner, useCount) == owner /\ useCount > 0

\* What an acquire call gives its caller: a full handle, an empty handle
\* (UniquePtrToObject{}), or the factory's exception; reused tells a handle
\* popped from the stack from one freshly constructed.
NoResult == [kind |-> "none", obj |-> 0, reused |-> FALSE]
Full(o, r) == [kind |-> "full", obj |-> o, reused |-> r]
Empty == [kind |-> "empty", obj |-> 0, reused |-> FALSE]
Thrown == [kind |-> "exception", obj |-> 0, reused |-> FALSE]

StackObjs(s) == {s[i].obj : i \in 1..Len(s)}

RemoveObj(s, o) == SelectSeq(s, LAMBDA x : x # o)

\* Objects in full handles that callers hold or have just been returned.
CheckedOut ==
    UNION {held[t] : t \in Threads}
        \cup {ret[t].obj : t \in {u \in Threads : ret[u].kind = "full"}}

NoSnapshot == [allocated |-> 0, pooled |-> 0]

\* The threads inside _factory().
InFactory == {t \in Threads : pc[t] = "factory"}

\* Faulty variant of LockedBy: the lock is released before the factory runs.
UnlockedForFactory(t) == "free"

\* std::unique_lock<std::mutex> lock(_mutex) of acquire, still held over
\* `return UniquePtrToObject{_factory(), ...}`.
LockedBy(t) == t

Bump(n) == IF n < CallsCap THEN n + 1 ELSE n

----------------------------------------------------------------------------
\* Faulty variant of Init: the pool is created with one object constructed
\* and stacked.
InitPrefilled ==
    /\ _limit \in 0..MaxLimit
    /\ _allocated = 1
    /\ _mutex = "free"
    /\ _poolContainer = <<Handle(1)>>
    /\ poolState = "alive"
    /\ extRef = [t \in Threads |-> TRUE]
    /\ frames = [t \in Threads |-> 0]
    /\ pc = [t \in Threads |-> "idle"]
    /\ ret = [t \in Threads |-> NoResult]
    /\ held = [t \in Threads |-> {}]
    /\ disp = [t \in Threads |-> 0]
    /\ cont = [t \in Threads |-> "idle"]
    /\ object = [o \in ObjIds |-> IF o = 1 THEN "live" ELSE "unborn"]
    /\ factoryCalls = 1
    /\ calls = 0
    /\ anyReleased = FALSE
    /\ atEntry = [t \in Threads |-> NoSnapshot]
    /\ atTeardown = [pooled |-> {}, out |-> {}]
    /\ dtorDeleted = <<>>
    /\ releaseOrder = <<1>>
    /\ readInFactory = FALSE

\* RaiiObjectPool::create(factory, limit) / the constructor.
Init ==
    /\ _limit \in 0..MaxLimit
    /\ _allocated = 0
    /\ _mutex = "free"
    /\ _poolContainer = <<>>
    /\ poolState = "alive"
    /\ extRef = [t \in Threads |-> TRUE]
    /\ frames = [t \in Threads |-> 0]
    /\ pc = [t \in Threads |-> "idle"]
    /\ ret = [t \in Threads |-> NoResult]
    /\ held = [t \in Threads |-> {}]
    /\ disp = [t \in Threads |-> 0]
    /\ cont = [t \in Threads |-> "idle"]
    /\ object = [o \in ObjIds |-> "unborn"]
    /\ factoryCalls = 0
    /\ calls = 0
    /\ anyReleased = FALSE
    /\ atEntry = [t \in Threads |-> NoSnapshot]
    /\ atTeardown = [pooled |-> {}, out |-> {}]
    /\ dtorDeleted = <<>>
    /\ releaseOrder = <<>>
    /\ readInFactory = FALSE

----------------------------------------------------------------------------
\* acquire()

\* A thread holding the pool's shared_ptr calls pool->acquire().  Calls on an
\* unlimited pool are made while each pending call can still construct an
\* object within MaxAllocated.
AcquireCall(t) ==
    /\ pc[t] = "idle"
    /\ extRef[t]
    /\ _limit = Unlimited =>
           _allocated + Cardinality({u \in Threads : pc[u] = "acquire"})
               < MaxAllocated
    /\ pc' = [pc EXCEPT ![t] = "acquire"]
    /\ UNCHANGED <<poolVars, poolState, extRef, frames, ret, held, disp, cont,
                   object, histVars>>

\* The lock is taken and the stack is not empty: pop and return its top.
AcquireRecycled(t) ==
    /\ pc[t] = "acquire"
    /\ _mutex = "free"
    /\ AcquireBranch(_poolContainer, _limit, _allocated) = "recycled"
    /\ ret' = [ret EXCEPT ![t] = Full(Top(_poolContainer).obj, TRUE)]
    /\ _poolContainer' = Pop(_poolContainer)
    /\ releaseOrder' = RemoveObj(releaseOrder, Top(_poolContainer).obj)
    /\ pc' = [pc EXCEPT ![t] = "done"]
    /\ calls' = Bump(calls)
    /\ UNCHANGED <<_limit, _allocated, _mutex, poolState, extRef, frames, held,
                   disp, cont, object, factoryCalls, anyReleased, atEntry,
                   atTeardown, dtorDeleted, readInFactory>>

\* The lock is taken, the stack is empty and the limit is not reached:
\* ++_allocated, then _factory() is entered with the lock held.
AcquireNew(t) ==
    /\ pc[t] = "acquire"
    /\ _mutex = "free"
    /\ AcquireBranch(_poolContainer, _limit, _allocated) = "new"
    /\ _limit = Unlimited => _allocated < MaxAllocated
    /\ _allocated' = Allocate(_allocated)
    /\ _mutex' = LockedBy(t)
    /\ factoryCalls' = factoryCalls + 1
    /\ atEntry' = [atEntry EXCEPT ![t] =
                      [allocated |-> _allocated, pooled |-> Len(_poolContainer)]]
    /\ pc' = [pc EXCEPT ![t] = "factory"]
    /\ UNCHANGED <<_limit, _poolContainer, poolState, extRef, frames, ret, held,
                   disp, cont, object, calls, anyReleased, atTeardown,
                   dtorDeleted, releaseOrder, readInFactory>>

\* _factory() returns a new object; acquire wraps it and returns, unlocking.
FactoryReturn(t) ==
    /\ pc[t] = "factory"
    /\ NewObject \in ObjIds
    /\ object' = [object EXCEPT ![NewObject] = "live"]
    /\ ret' = [ret EXCEPT ![t] = Full(NewObject, FALSE)]
    /\ _mutex' = "free"
    /\ pc' = [pc EXCEPT ![t] = "done"]
    /\ calls' = Bump(calls)
    /\ atEntry' = [atEntry EXCEPT ![t] = NoSnapshot]
    /\ UNCHANGED <<_limit, _allocated, _poolContainer, poolState, extRef, frames,
                   held, disp, cont, factoryCalls, anyReleased, atTeardown,
                   dtorDeleted, releaseOrder, readInFactory>>

\* _factory() throws: the exception leaves acquire, unlocking.
FactoryThrow(t) ==
    /\ pc[t] = "factory"
    /\ ret' = [ret EXCEPT ![t] = Thrown]
    /\ _mutex' = "free"
    /\ pc' = [pc EXCEPT ![t] = "done"]
    /\ calls' = Bump(calls)
    /\ atEntry' = [atEntry EXCEPT ![t] = NoSnapshot]
    /\ UNCHANGED <<_limit, _allocated, _poolContainer, poolState, extRef, frames,
                   held, disp, cont, object, factoryCalls, anyReleased,
                   atTeardown, dtorDeleted, releaseOrder, readInFactory>>

\* The lock is taken, the stack is empty and the limit is reached: an empty
\* unique_ptr is returned.
AcquireExhausted(t) ==
    /\ pc[t] = "acquire"
    /\ _mutex = "free"
    /\ AcquireBranch(_poolContainer, _limit, _allocated) = "exhausted"
    /\ ret' = [ret EXCEPT ![t] = Empty]
    /\ pc' = [pc EXCEPT ![t] = "done"]
    /\ calls' = Bump(calls)
    /\ UNCHANGED <<poolVars, poolState, extRef, frames, held, disp, cont, object,
                   factoryCalls, anyReleased, atEntry, atTeardown, dtorDeleted,
                   releaseOrder, readInFactory>>

\* The caller keeps the full handle acquire returned.
TakeHandle(t) ==
    /\ pc[t] = "done"
    /\ ret[t].kind = "full"
    /\ held' = [held EXCEPT ![t] = @ \cup {ret[t].obj}]
    /\ ret' = [ret EXCEPT ![t] = NoResult]
    /\ pc' = [pc EXCEPT ![t] = "idle"]
    /\ UNCHANGED <<poolVars, poolState, extRef, frames, disp, cont, object,
                   histVars>>

\* Faulty variant of DropEmptyHandle: the deleter runs for the null pointer
\* and hands it to add.
DropEmptyHandleToPool(t) ==
    /\ pc[t] = "done"
    /\ ret[t].kind = "empty"
    /\ _mutex = "free"
    /\ _poolContainer' = AddPushed(_poolContainer, 0)
    /\ ret' = [ret EXCEPT ![t] = NoResult]
    /\ pc' = [pc EXCEPT ![t] = "idle"]
    /\ UNCHANGED <<_limit, _allocated, _mutex, poolState, extRef, frames, held,
                   disp, cont, object, histVars>>

\* The caller lets go of an empty handle: unique_ptr's destructor does not
\* call the deleter of a null pointer.
DropEmptyHandle(t) ==
    /\ pc[t] = "done"
    /\ ret[t].kind = "empty"
    /\ ret' = [ret EXCEPT ![t] = NoResult]
    /\ pc' = [pc EXCEPT ![t] = "idle"]
    /\ UNCHANGED <<poolVars, poolState, extRef, frames, held, disp, cont, object,
                   histVars>>

\* The caller handles the factory's exception.
CatchFactoryFailure(t) ==
    /\ pc[t] = "done"
    /\ ret[t].kind = "exception"
    /\ ret' = [ret EXCEPT ![t] = NoResult]
    /\ pc' = [pc EXCEPT ![t] = "idle"]
    /\ UNCHANGED <<poolVars, poolState, extRef, frames, held, disp, cont, object,
                   histVars>>

----------------------------------------------------------------------------
\* limit(), allocated(), pooled(): the lock is taken, the field is read, the
\* lock is released.
AccessorRead(t) ==
    /\ pc[t] = "idle"
    /\ extRef[t]
    /\ _mutex = "free"
    /\ readInFactory' = (readInFactory \/ InFactory # {})
    /\ UNCHANGED <<poolVars, poolState, extRef, frames, pc, ret, held, disp,
                   cont, object, factoryCalls, calls, anyReleased, atEntry,
                   atTeardown, dtorDeleted, releaseOrder>>

----------------------------------------------------------------------------
\* ~RaiiObjectPool(), run by the thread that releases the last shared_ptr.

\* Thread t has released a shared_ptr, leaving the threads' copies refs, the
\* frames fr and the stack s.  When the use_count reaches zero the
\* destructor starts (it takes the lock) and t goes on at `after` when it is
\* done; otherwise t goes on at `after` at once.
ReleaseRef(t, refs, fr, s, after) ==
    IF UseCount(refs, fr) = 0 /\ poolState = "alive"
    THEN /\ poolState' = "destructing"
         /\ _mutex' = t
         /\ pc' = [pc EXCEPT ![t] = "dtor"]
         /\ cont' = [cont EXCEPT ![t] = after]
         /\ atTeardown' = [pooled |-> StackObjs(s), out |-> CheckedOut]
    ELSE /\ pc' = [pc EXCEPT ![t] = after]
         /\ UNCHANGED <<poolState, _mutex, cont, atTeardown>>

\* A thread drops its copy of the pool's shared_ptr (pool.reset()).
DropRef(t) ==
    /\ pc[t] = "idle"
    /\ extRef[t]
    /\ extRef' = [extRef EXCEPT ![t] = FALSE]
    /\ ReleaseRef(t, extRef', frames, _poolContainer, "idle")
    /\ UNCHANGED <<_limit, _allocated, _poolContainer, frames, ret, held, disp,
                   object, factoryCalls, calls, anyReleased, atEntry,
                   dtorDeleted, releaseOrder, readInFactory>>

\* Faulty variant of DtorDetached: the entry is left attached.
DtorNotDetached(h) == h

\* The destructor's loop: what detachFromPool leaves of the top entry.
DtorDetached(h) == DetachFromPool(h)

\* while (!_poolContainer.empty()):
\*     _poolContainer.top().get_deleter().detachFromPool()
DtorDetach(t) ==
    /\ pc[t] = "dtor"
    /\ _poolContainer # <<>>
    /\ _poolContainer' =
           Push(Pop(_poolContainer), DtorDetached(Top(_poolContainer)))
    /\ pc' = [pc EXCEPT ![t] = "dtorPop"]
    /\ UNCHANGED <<_limit, _allocated, _mutex, poolState, extRef, frames, ret,
                   held, disp, cont, object, histVars>>

\* _poolContainer.pop(): the entry is destroyed, its deleter runs; with the
\* weak pointer unresolved the object is deleted.  A resolved weak pointer
\* would call add on the pool under destruction, whose lock this thread holds.
DtorPop(t) ==
    /\ pc[t] = "dtorPop"
    /\ _poolContainer' = Pop(_poolContainer)
    /\ releaseOrder' = RemoveObj(releaseOrder, Top(_poolContainer).obj)
    /\ IF WeakLock(Top(_poolContainer).owner, UseCount(extRef, frames))
       THEN /\ pc' = [pc EXCEPT ![t] = "reentered"]
            /\ UNCHANGED <<object, dtorDeleted>>
       ELSE /\ pc' = [pc EXCEPT ![t] = "dtor"]
            /\ object' = [object EXCEPT ![Top(_poolContainer).obj] = DeleteObj(@)]
            /\ dtorDeleted' = Append(dtorDeleted, Top(_poolContainer).obj)
    /\ UNCHANGED <<_limit, _allocated, _mutex, poolState, extRef, frames, ret,
                   held, disp, cont, factoryCalls, calls, anyReleased, atEntry,
                   atTeardown, readInFactory>>

\* The loop ends: the lock is released and the members are destroyed.
DtorEnd(t) ==
    /\ pc[t] = "dtor"
    /\ _poolContainer = <<>>
    /\ _mutex' = "free"
    /\ poolState' = "destroyed"
    /\ pc' = [pc EXCEPT ![t] = cont[t]]
    /\ cont' = [cont EXCEPT ![t] = "idle"]
    /\ UNCHANGED <<_limit, _allocated, _poolContainer, extRef, frames, ret, held,
                   disp, object, histVars>>

----------------------------------------------------------------------------
\* ReturnToPoolDeleter::operator()(ptrToReleasedObject), run when a full
\* handle is destroyed, and add().

\* A full handle of t is destroyed and the weak pointer resolves: `pool`
\* holds the pool and add is called.
DisposeToPool(t, o) ==
    /\ pc[t] = "idle"
    /\ o \in held[t]
    /\ WeakLock(TRUE, UseCount(extRef, frames))
    /\ held' = [held EXCEPT ![t] = @ \ {o}]
    /\ disp' = [disp EXCEPT ![t] = o]
    /\ frames' = [frames EXCEPT ![t] = 1]
    /\ pc' = [pc EXCEPT ![t] = "add"]
    /\ anyReleased' = TRUE
    /\ UNCHANGED <<poolVars, poolState, extRef, ret, cont, object, factoryCalls,
                   calls, atEntry, atTeardown, dtorDeleted, releaseOrder,
                   readInFactory>>

\* A full handle of t is destroyed and the weak pointer does not resolve:
\* delete ptrToReleasedObject.
DisposePoolGone(t, o) ==
    /\ pc[t] = "idle"
    /\ o \in held[t]
    /\ ~WeakLock(TRUE, UseCount(extRef, frames))
    /\ held' = [held EXCEPT ![t] = @ \ {o}]
    /\ object' = [object EXCEPT ![o] = DeleteObj(@)]
    /\ UNCHANGED <<poolVars, poolState, extRef, frames, pc, ret, disp, cont,
                   histVars>>

\* add() succeeds: the lock is taken, the handle is pushed, the lock is
\* released; operator() returns and its `pool` is released.  When frames of
\* failed add calls remain below, the exception goes on to their catch.
AddPush(t) ==
    /\ pc[t] = "add"
    /\ _mutex = "free"
    /\ _poolContainer' = AddPushed(_poolContainer, disp[t])
    /\ releaseOrder' = Append(releaseOrder, disp[t])
    /\ frames' = [frames EXCEPT ![t] = @ - 1]
    /\ IF frames'[t] > 0
       THEN /\ pc' = [pc EXCEPT ![t] = "catch"]
            /\ UNCHANGED <<poolState, _mutex, cont, disp, atTeardown>>
       ELSE /\ ReleaseRef(t, extRef, frames', _poolContainer', "idle")
            /\ disp' = [disp EXCEPT ![t] = 0]
    /\ UNCHANGED <<_limit, _allocated, extRef, ret, held, object, factoryCalls,
                   calls, anyReleased, atEntry, dtorDeleted, readInFactory>>

\* add() fails: push throws std::bad_alloc before moving from ptr.  The lock
\* is released, then add's parameter ptr, which still owns the object, is
\* destroyed: its deleter runs operator() again on the same object, its weak
\* pointer resolves (the calling frame holds the pool) and add is called
\* again from the new frame.
AddBadAlloc(t) ==
    /\ pc[t] = "add"
    /\ _mutex = "free"
    /\ frames[t] <= MaxAddFailures
    /\ WeakLock(TRUE, UseCount(extRef, frames))
    /\ frames' = [frames EXCEPT ![t] = @ + 1]
    /\ UNCHANGED <<poolVars, poolState, extRef, pc, ret, held, disp, cont,
                   object, histVars>>

\* catch (const std::bad_alloc&) { } in a frame whose add failed: leaving
\* the if block releases the frame's `pool` (the destructor runs first when
\* it was the last), then delete ptrToReleasedObject.
CatchBadAlloc(t) ==
    /\ pc[t] = "catch"
    /\ frames' = [frames EXCEPT ![t] = @ - 1]
    /\ IF UseCount(extRef, frames') = 0
       THEN /\ ReleaseRef(t, extRef, frames', _poolContainer, "delete")
            /\ UNCHANGED <<object, disp>>
       ELSE /\ object' = [object EXCEPT ![disp[t]] = DeleteObj(@)]
            /\ pc' = [pc EXCEPT ![t] = IF frames'[t] > 0 THEN "catch" ELSE "idle"]
            /\ disp' = [disp EXCEPT ![t] = IF frames'[t] > 0 THEN @ ELSE 0]
            /\ UNCHANGED <<poolState, _mutex, cont, atTeardown>>
    /\ UNCHANGED <<_limit, _allocated, _poolContainer, extRef, ret, held,
                   factoryCalls, calls, anyReleased, atEntry, dtorDeleted,
                   releaseOrder, readInFactory>>

\* delete ptrToReleasedObject in the last frame, after the destructor it
\* started has run.
DeleteAfterDtor(t) ==
    /\ pc[t] = "delete"
    /\ object' = [object EXCEPT ![disp[t]] = DeleteObj(@)]
    /\ pc' = [pc EXCEPT ![t] = "idle"]
    /\ disp' = [disp EXCEPT ![t] = 0]
    /\ UNCHANGED <<poolVars, poolState, extRef, frames, ret, held, cont,
                   histVars>>

----------------------------------------------------------------------------
Next ==
    \E t \in Threads :
        \/ AcquireCall(t)
        \/ AcquireRecycled(t)
        \/ AcquireNew(t)
        \/ FactoryReturn(t)
        \/ FactoryThrow(t)
        \/ AcquireExhausted(t)
        \/ TakeHandle(t)
        \/ DropEmptyHandle(t)
        \/ CatchFactoryFailure(t)
        \/ AccessorRead(t)
        \/ DropRef(t)
        \/ DtorDetach(t)
        \/ DtorPop(t)
        \/ DtorEnd(t)
        \/ \E o \in ObjIds : DisposeToPool(t, o)
        \/ \E o \in ObjIds : DisposePoolGone(t, o)
        \/ AddPush(t)
        \/ AddBadAlloc(t)
        \/ CatchBadAlloc(t)
        \/ DeleteAfterDtor(t)

Spec == Init /\ [][Next]_vars

\* std::mutex is granted to a thread that keeps asking for it, and the
\* factory returns or throws.  Nothing is assumed of the callers: no handle
\* has to be disposed and no shared_ptr dropped.
Fairness ==
    \A t \in Threads :
        /\ SF_vars(AcquireRecycled(t) \/ AcquireNew(t) \/ AcquireExhausted(t))
        /\ WF_vars(FactoryReturn(t) \/ FactoryThrow(t))

LiveSpec == Init /\ [][Next]_vars /\ Fairness

----------------------------------------------------------------------------
\* Properties.

\* No invocation of the factory has failed so far.
NoFactoryFailure ==
    factoryCalls = Cardinality(Constructed) + Cardinality(InFactory)

\* C1: for a pool created with a limit N other than Unlimited, every
\* reachable state has 0 <= pooled() <= allocated() <= N, whatever the
\* interleaving of acquires and disposals and also after failed factory calls.
C1_LimitInvariant ==
    limit # Unlimited => (0 <= pooled /\ pooled <= allocated /\ allocated <= limit)

\* A limited pool at its limit after a factory failure, with a recycled object.
C1_Witness ==
    /\ limit = MaxLimit
    /\ allocated = limit
    /\ pooled >= 1
    /\ factoryCalls > Cardinality(Constructed)
    /\ InFactory = {}

\* C2: with limit N, no handle released and no factory failure, each of the
\* first N acquire calls returns a full handle and leaves allocated() at the
\* number of calls made and pooled() at 0; every later acquire returns an
\* empty handle without invoking the factory, allocated() staying N and
\* pooled() staying 0.
C2_ExhaustionBoundary ==
    [][(limit # Unlimited /\ ~anyReleased /\ NoFactoryFailure) =>
        /\ calls >= limit => factoryCalls' = factoryCalls
        /\ \A t \in Threads :
            (pc[t] \in {"acquire", "factory"} /\ pc'[t] = "done") =>
                IF calls < limit
                THEN ret'[t].kind # "exception" =>
                        /\ ret'[t].kind = "full"
                        /\ allocated' = calls + 1
                        /\ pooled' = 0
                ELSE /\ ret'[t].kind = "empty"
                     /\ pc[t] = "acquire"
                     /\ allocated' = limit
                     /\ pooled' = 0]_vars

\* The (N+1)-th acquire has just returned an empty handle.
C2_Witness ==
    \E t \in Threads :
        /\ pc[t] = "done"
        /\ ret[t].kind = "empty"
        /\ ~anyReleased
        /\ limit = MaxLimit
        /\ calls = limit + 1
        /\ factoryCalls = limit
        /\ Cardinality(Constructed) = limit
        /\ allocated = limit
        /\ pooled = 0

\* C3: disposing a full handle while the pool is alive calls add, and when
\* the insertion succeeds the object is on top of the stack: pooled() grows
\* by exactly 1, allocated() is unchanged and no object is destroyed; this
\* holds for freshly constructed and for reused objects alike.
C3_DisposeRecycles ==
    [][\A t \in Threads :
        /\ \A o \in ObjIds :
            (poolState = "alive" /\ o \in held[t] /\ o \notin held'[t]) =>
                /\ pc'[t] = "add"
                /\ disp'[t] = o
                /\ object' = object
                /\ allocated' = allocated
                /\ pooled' = pooled
        /\ (pc[t] = "add" /\ frames[t] = 1 /\ frames'[t] = 0) =>
                /\ pooled' = pooled + 1
                /\ Top(_poolContainer').obj = disp[t]
                /\ allocated' = allocated
                /\ object' = object]_vars

\* One object, constructed once, acquired twice and recycled after each.
C3_Witness ==
    /\ limit = Unlimited
    /\ calls = 2
    /\ factoryCalls = 1
    /\ allocated = 1
    /\ pooled = 1
    /\ Top(_poolContainer).obj = 1
    /\ object[1] = "live"
    /\ \A t \in Threads : pc[t] = "idle"

\* C4: an acquire that finds the stack non-empty returns a full handle to
\* an object of the stack without invoking the factory: allocated() is
\* unchanged and pooled() drops by exactly 1, also when allocated() = limit().
C4_AcquireReuses ==
    [][\A t \in Threads :
        (pc[t] = "acquire" /\ pc'[t] # "acquire" /\ pooled > 0) =>
            /\ pc'[t] = "done"
            /\ ret'[t].kind = "full"
            /\ ret'[t].obj \in StackObjs(_poolContainer)
            /\ allocated' = allocated
            /\ factoryCalls' = factoryCalls
            /\ pooled' = pooled - 1]_vars

\* At the limit, the last of the recycled objects has just been reacquired.
C4_Witness ==
    \E t \in Threads :
        /\ pc[t] = "done"
        /\ ret[t].reused
        /\ limit = MaxLimit
        /\ allocated = limit
        /\ factoryCalls = limit
        /\ pooled = 0
        /\ Cardinality(CheckedOut) = limit

\* C5: an acquire that finds the stack non-empty returns the most recently
\* released object still in the stack, so objects released A then B come
\* back B first, then A.
C5_Lifo ==
    [][\A t \in Threads :
        (pc[t] = "acquire" /\ pc'[t] = "done" /\ pooled > 0) =>
            /\ releaseOrder # <<>>
            /\ ret'[t].obj = releaseOrder[Len(releaseOrder)]
            /\ releaseOrder' = SubSeq(releaseOrder, 1, Len(releaseOrder) - 1)]_vars

\* Object 2 was released before object 1, and an acquire has returned 1.
C5_Witness ==
    \E t \in Threads :
        /\ pc[t] = "done"
        /\ ret[t].reused
        /\ ret[t].obj = 1
        /\ releaseOrder = <<2>>
        /\ pooled = 1

Range(q) == {q[i] : i \in 1..Len(q)}

C8_FactoryFailureNotCounted ==
    [][\A t \in Threads :
        (pc[t] = "factory" /\ ret'[t].kind = "exception") =>
            /\ pc'[t] = "done"
            /\ allocated' = atEntry[t].allocated
            /\ pooled' = atEntry[t].pooled]_vars

\* C9: when add fails during the disposal of a full handle, the disposal
\* completes with the object deleted exactly once and absent from the
\* stack, allocated() unchanged.
C9_InsertionFailureDeletesOnce ==
    [][\A t \in Threads :
        (pc[t] \in {"catch", "delete"} /\ pc'[t] = "idle") =>
            /\ object'[disp[t]] = "deleted"
            /\ disp[t] \notin StackObjs(_poolContainer')
            /\ disp[t] \notin CheckedOut'
            /\ allocated' = allocated]_vars

\* The handles that own object o: callers' handles, stack entries, and the
\* handle a running operator() is passing to add.
Owners(o) ==
    Cardinality({t \in Threads : o \in held[t]})
        + Cardinality({t \in Threads : ret[t].kind = "full" /\ ret[t].obj = o})
        + Cardinality({i \in 1..Len(_poolContainer) : _poolContainer[i].obj = o})
        + Cardinality({t \in Threads : pc[t] = "add" /\ disp[t] = o})

\* C10: every live object is owned by exactly one handle, held by one caller
\* or being one entry of the stack, and no deleted object is in the stack or
\* in a caller's handle.
C10_ExclusiveOwnership ==
    \A o \in ObjIds :
        /\ object[o] = "live" => Owners(o) = 1
        /\ object[o] # "live" => Owners(o) = 0

AtRest == \A t \in Threads : pc[t] = "idle"

\* C12: whenever the pool is alive and no acquire or disposal is in
\* progress, allocated() - pooled() is the number of objects callers hold in
\* checked-out handles, also after a failed factory call or a failed
\* insertion.
C12_CheckedOutAccounting ==
    (poolState = "alive" /\ AtRest) =>
        allocated = pooled + Cardinality(CheckedOut)

\* C13: once the pool is destroyed and every handle has been disposed, every
\* object the factory constructed has been deleted exactly once, whichever
\* way the disposals interleave with the release of the last shared_ptr,
\* the destructor started from inside operator() included.
C13_NoLeakNoDoubleDelete ==
    (poolState = "destroyed" /\ AtRest /\ CheckedOut = {}) =>
        \A o \in Constructed : object[o] = "deleted"

\* No thread holds a shared_ptr to the pool and no operator() frame holds one.
NoStrongRef == \A t \in Threads : ~extRef[t] /\ frames[t] = 0

\* C14: handles hold the pool weakly: once no thread holds a shared_ptr and
\* no operator() frame holds one, the pool's destructor has started, and it
\* has finished when no thread is inside it, however many handles are
\* checked out or were in the stack.
C14_HandlesDoNotOwnPool ==
    NoStrongRef =>
        /\ poolState # "alive"
        /\ (\A t \in Threads : pc[t] \notin {"dtor", "dtorPop"}) =>
               poolState = "destroyed"

\* The pool was destroyed with one handle in its stack and one checked out,
\* and the checked-out handle still exists.
C14_Witness ==
    /\ poolState = "destroyed"
    /\ NoStrongRef
    /\ Cardinality(atTeardown.pooled) = 1
    /\ Cardinality(atTeardown.out) = 1
    /\ CheckedOut = atTeardown.out
    /\ \A o \in CheckedOut : object[o] = "live"

\* C15: with the lock granted fairly and a factory that terminates, every
\* acquire call completes, whether or not any handle is ever released; a
\* call that finds the stack empty and the limit reached completes at once
\* with an empty handle.
C15_AcquireNeverWaits ==
    /\ \A t \in Threads : (pc[t] = "acquire") ~> (pc[t] = "done")
    /\ [][\A t \in Threads :
            (/\ pc[t] = "acquire" /\ pc'[t] # "acquire"
             /\ pooled = 0 /\ limit # Unlimited /\ allocated = limit) =>
                pc'[t] = "done" /\ ret'[t].kind = "empty"]_vars

\* An acquire on an exhausted pool has returned an empty handle while the
\* other thread still holds every object of the pool.
C15_Witness ==
    \E t \in Threads : \E u \in Threads \ {t} :
        /\ pc[t] = "done"
        /\ ret[t].kind = "empty"
        /\ limit = MaxLimit
        /\ Cardinality(held[u]) = limit
        /\ pc[u] = "idle"
        /\ pooled = 0

\* C16: for a pool created with limit 0 (Unlimited), limit() is 0 and no
\* acquire returns an empty handle: each call returns a full handle, reused
\* or new, or passes on the factory's exception, whatever allocated() is.
C16_UnlimitedNeverEmpty ==
    _limit = Unlimited =>
        /\ limit = 0
        /\ \A t \in Threads :
              /\ ret[t].kind # "empty"
              /\ pc[t] = "done" => ret[t].kind \in {"full", "exception"}

\* An unlimited pool has constructed its MaxAllocated-th object while the
\* earlier ones are checked out.
C16_Witness ==
    \E t \in Threads :
        /\ limit = Unlimited
        /\ pc[t] = "done"
        /\ ret[t].kind = "full"
        /\ ~ret[t].reused
        /\ ret[t].obj = MaxAllocated
        /\ allocated = MaxAllocated
        /\ Cardinality(CheckedOut) = MaxAllocated

\* C17: create(factory, limit) gives a pool with allocated() = 0 and
\* pooled() = 0 without a factory invocation or an object, and limit() keeps
\* the value given at creation (0 when omitted) in every later step.
C17_InitialStateAndLimit ==
    /\ allocated = 0
    /\ pooled = 0
    /\ factoryCalls = 0
    /\ Constructed = {}
    /\ limit \in 0..MaxLimit
    /\ [][limit' = limit]_vars

\* A pool created with limit 1 after two acquire calls, a disposal and the
\* release of one shared_ptr: limit() is still 1.
C17_Witness ==
    /\ limit = 1
    /\ calls = 2
    /\ allocated = 1
    /\ pooled = 1
    /\ anyReleased
    /\ \E t \in Threads : ~extRef[t]
    /\ poolState = "alive"

\* C18: the factory runs with the pool's lock held: at most one thread is
\* inside the factory, that thread holds the lock, and while it is there no
\* other thread's acquire or add makes a step, no accessor read returns and
\* the pool's fields stay as they are.
C18_FactoryUnderLock ==
    [][/\ Cardinality(InFactory') <= 1
       /\ \A t \in InFactory' : _mutex' = t
       /\ ~readInFactory'
       /\ \A t \in InFactory :
            /\ pc'[t] = pc[t] => poolVars' = poolVars
            /\ \A u \in Threads \ {t} :
                  pc[u] \in {"acquire", "add"} =>
                      /\ pc'[u] = pc[u]
                      /\ frames'[u] = frames[u]
                      /\ ret'[u] = ret[u]]_vars

\* One thread is inside the factory while the other's disposal has called add
\* and waits for the lock.
C18_Witness ==
    \E t \in Threads : \E u \in Threads \ {t} :
        /\ pc[t] = "factory"
        /\ _mutex = t
        /\ pc[u] = "add"
        /\ disp[u] \in ObjIds

\* C19: add never runs on a pool whose destruction has begun: a thread
\* inside add, or in the catch of a failed add, holds a `pool` reference and
\* the pool is alive; once the destructor has started no operator() frame
\* holds the pool, and no deleter run by the destructor enters add.
C19_NoAddOnDyingPool ==
    /\ \A t \in Threads :
          /\ pc[t] \in {"add", "catch"} => (poolState = "alive" /\ frames[t] > 0)
          /\ pc[t] # "reentered"
    /\ poolState # "alive" => \A t \in Threads : frames[t] = 0

\* Every caller has dropped its shared_ptr while a disposal is inside add:
\* the pool is alive through the `pool` local of operator() alone.
C19_Witness ==
    \E t \in Threads :
        /\ pc[t] = "add"
        /\ frames[t] = 1
        /\ \A u \in Threads : ~extRef[u]
        /\ poolState = "alive"

\* C20: every entry of the stack holds an object; letting go of an empty
\* handle runs no return protocol and changes neither pooled() nor
\* allocated(); an acquire that finds the stack non-empty returns a full
\* handle.
C20_NoEmptyEntry ==
    [][/\ \A i \in 1..Len(_poolContainer') : _poolContainer'[i].obj \in ObjIds
       /\ \A t \in Threads :
            /\ (pc[t] = "done" /\ ret[t].kind = "empty" /\ pc'[t] # "done") =>
                  /\ pc'[t] = "idle"
                  /\ poolVars' = poolVars
                  /\ poolState' = poolState
                  /\ frames' = frames
                  /\ disp' = disp
                  /\ object' = object
            /\ (pc[t] = "acquire" /\ pc'[t] = "done" /\ pooled > 0) =>
                  /\ ret'[t].kind = "full"
                  /\ ret'[t].obj \in ObjIds]_vars

\* The empty handle of an exhausted acquire has been let go: nothing is
\* stacked and every object is still checked out.
C20_Witness ==
    /\ limit = MaxLimit
    /\ calls = limit + 1
    /\ Cardinality(Constructed) = limit
    /\ ~anyReleased
    /\ AtRest
    /\ \A t \in Threads : ret[t] = NoResult
    /\ pooled = 0
    /\ allocated = limit
    /\ Cardinality(CheckedOut) = limit

=============================================================================
